---- MODULE Spec2Model ----
(***************************************************************************)
(* Family habit-and-goal tracker (src/app.py): the habit scheduler, the    *)
(* monthly progress aggregator and the habit-log upsert, over the          *)
(* relational store the screens write to.                                  *)
(*                                                                         *)
(* A nullable column or an optional Python value is None (<<>>) or         *)
(* Some(x) (<<x>>).  A Python str is the sequence of its characters.  A    *)
(* call's outcome is Return(v) or Raise(exception name).                   *)
(***************************************************************************)
EXTENDS Integers, Sequences, FiniteSets, TLC

VARIABLES
    clock,        \* date.today() of the host
    call,         \* the last call that completed, its arguments and outcome
    categories,   \* table categories
    goals,        \* table goals
    tasks,        \* table tasks
    habits,       \* table habits
    habit_logs,   \* table habit_logs
    seq,          \* the SERIAL sequence of each table: the last id handed out
    upserted,     \* history: the (habit_id, log_date) pairs upserted so far
    sess,         \* the position of each concurrent session inside a handler
    applied,      \* history: the sessions in the order their statement was applied
    users,        \* table users
    mood_logs,    \* table mood_logs
    session_state,\* st.session_state of each browser session
    shown,        \* the last script run: its session and what it rendered
    conns         \* the connections the last script run opened, in order

vars == <<clock, call, categories, goals, tasks, habits, habit_logs, seq,
          upserted, sess, applied, users, mood_logs, session_state, shown, conns>>

appVars == <<users, mood_logs, session_state, shown, conns>>

dbVars == <<categories, goals, tasks, habits, habit_logs, seq>>

None == <<>>
Some(x) == <<x>>

Return(v) == [ok |-> TRUE, val |-> v]
Raise(e) == [ok |-> FALSE, val |-> e]

NoCall == [fn |-> "none"]

-----------------------------------------------------------------------------
(* datetime.date as the code uses it: replace, subtraction, + timedelta,   *)
(* weekday, comparison.  Proleptic Gregorian ordinals, day 1 = 0001-01-01. *)

MINYEAR == 1
MAXYEAR == 9999

IsLeap(y) == y % 4 = 0 /\ (y % 100 # 0 \/ y % 400 = 0)

DaysInMonthTable == <<31, 28, 31, 30, 31, 30, 31, 31, 30, 31, 30, 31>>

DaysBeforeMonthTable == <<0, 31, 59, 90, 120, 151, 181, 212, 243, 273, 304, 334>>

LibDaysInMonth(y, m) == IF m = 2 /\ IsLeap(y) THEN 29 ELSE DaysInMonthTable[m]

DaysBeforeYear(y) ==
    LET p == y - 1 IN p * 365 + (p \div 4) - (p \div 100) + (p \div 400)

DaysBeforeMonth(y, m) ==
    DaysBeforeMonthTable[m] + (IF m > 2 /\ IsLeap(y) THEN 1 ELSE 0)

Date(y, m, d) == [year |-> y, month |-> m, day |-> d]

\* date(y, m, d): the constructor checks its fields and raises ValueError.
NewDate(y, m, d) ==
    IF /\ y >= MINYEAR /\ y <= MAXYEAR
       /\ m >= 1 /\ m <= 12
       /\ d >= 1 /\ d <= LibDaysInMonth(y, m)
    THEN Return(Date(y, m, d))
    ELSE Raise("ValueError")

ToOrdinal(dt) ==
    DaysBeforeYear(dt.year) + DaysBeforeMonth(dt.year, dt.month) + dt.day

\* The date of ordinal n (datetime._ord2ymd).
FromOrdinal(n) ==
    LET n0 == n - 1
        n400 == n0 \div 146097
        r400 == n0 % 146097
        n100 == r400 \div 36524
        r100 == r400 % 36524
        n4 == r100 \div 1461
        r4 == r100 % 1461
        n1 == r4 \div 365
        r1 == r4 % 365
        year == n400 * 400 + 1 + n100 * 100 + n4 * 4 + n1
    IN  IF n1 = 4 \/ n100 = 4
        THEN Date(year - 1, 12, 31)
        ELSE LET leapyear == n1 = 3 /\ (n4 # 24 \/ n100 = 3)
                 m0 == (r1 + 50) \div 32
                 p0 == DaysBeforeMonthTable[m0]
                          + (IF m0 > 2 /\ leapyear THEN 1 ELSE 0)
                 month == IF p0 > r1 THEN m0 - 1 ELSE m0
                 preceding ==
                     IF p0 > r1
                     THEN p0 - (DaysInMonthTable[month]
                                  + (IF month = 2 /\ leapyear THEN 1 ELSE 0))
                     ELSE p0
             IN  Date(year, month, r1 - preceding + 1)

MaxOrdinal == ToOrdinal(Date(MAXYEAR, 12, 31))

\* dt + timedelta(days=k): OverflowError outside date.min .. date.max.
DatePlusDays(dt, k) ==
    LET o == ToOrdinal(dt) + k
    IN  IF o >= 1 /\ o <= MaxOrdinal THEN Return(FromOrdinal(o))
        ELSE Raise("OverflowError")

\* (a - b).days
DaysBetween(a, b) == ToOrdinal(a) - ToOrdinal(b)

\* Mutant of Weekday: Sunday = 0 .. Saturday = 6
WeekdaySundayFirst(dt) == ToOrdinal(dt) % 7

\* dt.weekday(): Monday = 0 .. Sunday = 6
Weekday(dt) == (ToOrdinal(dt) + 6) % 7

DateLE(a, b) == ToOrdinal(a) <= ToOrdinal(b)

\* SQL: x BETWEEN lo AND hi
Between(x, lo, hi) == DateLE(lo, x) /\ DateLE(x, hi)

today == clock

\* days_in_month(d): next month's first day minus this month's first day.
days_in_month(d) ==
    LET first == NewDate(d.year, d.month, 1)
    IN  IF ~first.ok THEN first
        ELSE LET nxt == IF first.val.month = 12
                        THEN NewDate(first.val.year + 1, 1, 1)
                        ELSE NewDate(first.val.year, first.val.month + 1, 1)
             IN  IF ~nxt.ok THEN nxt
                 ELSE Return(DaysBetween(nxt.val, first.val))

\* Mutant of MonthRange: last = first + timedelta(days=days_in_month(d))
MonthRangeOneDayLong(d) ==
    LET first == NewDate(d.year, d.month, 1)
    IN  IF ~first.ok THEN first
        ELSE LET n == days_in_month(d)
             IN  IF ~n.ok THEN n
                 ELSE LET last == DatePlusDays(first.val, n.val)
                      IN  IF ~last.ok THEN last
                          ELSE Return([first |-> first.val, last |-> last.val])

\* The [first, last] a monthly aggregation covers.
MonthRange(d) ==
    LET first == NewDate(d.year, d.month, 1)
    IN  IF ~first.ok THEN first
        ELSE LET n == days_in_month(d)
             IN  IF ~n.ok THEN n
                 ELSE LET last == DatePlusDays(first.val, n.val - 1)
                      IN  IF ~last.ok THEN last
                          ELSE Return([first |-> first.val, last |-> last.val])

-----------------------------------------------------------------------------
(* str.split(sep) for a one-character separator, on a non-empty or empty   *)
(* string: every separator cuts, empty parts are kept.                     *)

RECURSIVE Split(_, _)
Split(s, sep) ==
    IF \A i \in 1..Len(s) : s[i] # sep
    THEN <<s>>
    ELSE LET i == CHOOSE k \in 1..Len(s) :
                      s[k] = sep /\ \A j \in 1..(k - 1) : s[j] # sep
         IN  <<SubSeq(s, 1, i - 1)>> \o Split(SubSeq(s, i + 1, Len(s)), sep)

\* sep.join(parts)
RECURSIVE Join(_, _)
Join(parts, sep) ==
    IF Len(parts) = 0 THEN <<>>
    ELSE IF Len(parts) = 1 THEN parts[1]
    ELSE parts[1] \o <<sep>> \o Join(Tail(parts), sep)

\* parts[i] of a Python list, for i >= 0
ListItem(parts, i) ==
    IF i < Len(parts) THEN Return(parts[i + 1]) ELSE Raise("IndexError")

\* The mask the habit form stores for its seven checkboxes (Mon..Sun).
FormMask(selected) ==
    Join([i \in 1..7 |-> IF selected[i] THEN <<"1">> ELSE <<"0">>], ",")

\* Truthiness of an optional str: None and "" are falsy.
Truthy(optStr) == optStr # None /\ optStr[1] # <<>>

\* Mutant of habit_should_run_today: the monthly branch is missing
should_run_without_monthly(schedule_type, weekdays_mask) ==
    IF schedule_type = "daily" THEN Return(TRUE)
    ELSE IF schedule_type = "weekdays"
    THEN IF ~Truthy(weekdays_mask) THEN Return(FALSE)
         ELSE LET parts == Split(weekdays_mask[1], ",")
              IN  IF Len(parts) # 7 THEN Return(FALSE)
                  ELSE LET p == ListItem(parts, Weekday(today))
                       IN  IF ~p.ok THEN p ELSE Return(p.val = <<"1">>)
    ELSE Return(FALSE)

\* Mutant of habit_should_run_today: the mask's length is not checked
should_run_without_length_check(schedule_type, weekdays_mask) ==
    IF schedule_type = "daily" THEN Return(TRUE)
    ELSE IF schedule_type = "weekdays"
    THEN IF ~Truthy(weekdays_mask) THEN Return(FALSE)
         ELSE LET parts == Split(weekdays_mask[1], ",")
                  p == ListItem(parts, Weekday(today))
              IN  IF ~p.ok THEN p ELSE Return(p.val = <<"1">>)
    ELSE IF schedule_type = "monthly" THEN Return(TRUE)
    ELSE Return(FALSE)

habit_should_run_today(schedule_type, weekdays_mask) ==
    IF schedule_type = "daily" THEN Return(TRUE)
    ELSE IF schedule_type = "weekdays"
    THEN IF ~Truthy(weekdays_mask) THEN Return(FALSE)
         ELSE LET parts == Split(weekdays_mask[1], ",")
              IN  IF Len(parts) # 7 THEN Return(FALSE)
                  ELSE LET p == ListItem(parts, Weekday(today))
                       IN  IF ~p.ok THEN p ELSE Return(p.val = <<"1">>)
    ELSE IF schedule_type = "monthly" THEN Return(TRUE)
    ELSE Return(FALSE)

-----------------------------------------------------------------------------
(* The store.  A table is the set of its rows; a row is a record of the    *)
(* columns a statement of the program reads or writes.                     *)

\* st.session_state["user_id"] of the logged-in session
user_id == 1

Defaults == <<"Salud", "Profesional", "Social", "Finanzas personales",
              "Desarrollo personal">>

Ids(table) == {r.id : r \in table}

\* upsert_default_categories_if_empty(): runs at the top of every script run.
SeedCategories(cats, last) ==
    IF Cardinality(cats) = 0
    THEN [rows |-> {[id |-> last + i, name |-> Defaults[i]] : i \in 1..Len(Defaults)},
          last |-> last + Len(Defaults)]
    ELSE [rows |-> cats, last |-> last]

\* INSERT INTO categories ... ON CONFLICT (name) DO NOTHING: the sequence
\* advances also when the name is taken.
InsertCategory(cats, last, name) ==
    [rows |-> IF \E c \in cats : c.name = name THEN cats
              ELSE cats \cup {[id |-> last + 1, name |-> name]},
     last |-> last + 1]

\* cat_map[category]: the id of the category the form selected
CatId(cats, name) == (CHOOSE c \in cats : c.name = name).id

\* ON DELETE SET NULL of a column referencing the deleted ids
SetNull(table, column, gone) ==
    {IF r[column] # None /\ r[column][1] \in gone
     THEN [r EXCEPT ![column] = None] ELSE r : r \in table}

\* ON DELETE CASCADE of a column referencing the deleted ids
Cascade(table, column, gone) ==
    {r \in table : ~(r[column] # None /\ r[column][1] \in gone)}

\* Mutant of CascadeLogs: the foreign key has no ON DELETE CASCADE effect
CascadeNothing(logs, gone) == logs

\* habit_logs.habit_id is NOT NULL: ON DELETE CASCADE on a plain column
CascadeLogs(logs, gone) == {r \in logs : r.habit_id \notin gone}

RowsFor(logs, h, d) == {r \in logs : r.habit_id = h /\ r.log_date = d}

\* Mutants of upsert_habit_log: a plain INSERT with no conflict target, and
\* an update that keeps a stored field when the call passes None for it.
upsert_plain_insert(h, d, done, value) ==
    [rows |-> habit_logs \cup {[id |-> seq.habit_logs + 1, habit_id |-> h,
                                log_date |-> d, done |-> done, value |-> value]},
     out |-> Return(None)]

upsert_merging(h, d, done, value) ==
    IF RowsFor(habit_logs, h, d) # {}
    THEN [rows |-> {IF r.habit_id = h /\ r.log_date = d
                    THEN [r EXCEPT !.done = IF done = None THEN @ ELSE done,
                                   !.value = IF value = None THEN @ ELSE value]
                    ELSE r : r \in habit_logs},
          out |-> Return(None)]
    ELSE IF h \notin Ids(habits)
    THEN [rows |-> habit_logs, out |-> Raise("ForeignKeyViolation")]
    ELSE [rows |-> habit_logs \cup {[id |-> seq.habit_logs + 1, habit_id |-> h,
                                     log_date |-> d, done |-> done, value |-> value]},
          out |-> Return(None)]

\* Mutant of upsert_habit_log: the write reaches every row of the habit,
\* whatever its log_date
upsert_touching_all_dates(h, d, done, value) ==
    IF h \notin Ids(habits)
    THEN [rows |-> habit_logs, out |-> Raise("ForeignKeyViolation")]
    ELSE [rows |-> {IF r.habit_id = h THEN [r EXCEPT !.done = done, !.value = value]
                    ELSE r : r \in habit_logs}
                   \cup (IF RowsFor(habit_logs, h, d) # {} THEN {}
                         ELSE {[id |-> seq.habit_logs + 1, habit_id |-> h,
                                log_date |-> d, done |-> done, value |-> value]}),
          out |-> Return(None)]

\* INSERT INTO habit_logs ... ON CONFLICT (habit_id, log_date) DO UPDATE SET
\* done = EXCLUDED.done, value = EXCLUDED.value.  The new rows and the
\* outcome; the id sequence advances in every case.
upsert_habit_log(h, d, done, value) ==
    IF RowsFor(habit_logs, h, d) # {}
    THEN [rows |-> {IF r.habit_id = h /\ r.log_date = d
                    THEN [r EXCEPT !.done = done, !.value = value]
                    ELSE r : r \in habit_logs},
          out |-> Return(None)]
    ELSE IF h \notin Ids(habits)
    THEN [rows |-> habit_logs, out |-> Raise("ForeignKeyViolation")]
    ELSE [rows |-> habit_logs \cup {[id |-> seq.habit_logs + 1, habit_id |-> h,
                                     log_date |-> d, done |-> done, value |-> value]},
          out |-> Return(None)]

\* INSERT INTO mood_logs ... ON CONFLICT (user_id, log_date) DO UPDATE SET
\* mood = EXCLUDED.mood, text = EXCLUDED.text.  The new rows; the id and
\* the text of a row are left out.
upsert_mood_log(u, d, mood) ==
    {r \in mood_logs : ~(r.user_id = u /\ r.log_date = d)}
        \cup {[user_id |-> u, log_date |-> d, mood |-> mood]}

RECURSIVE SumValues(_)
\* SUM(value): NULL values are skipped; NULL when no row has a value
SumValues(rows) ==
    IF rows = {} THEN None
    ELSE LET r == CHOOSE x \in rows : TRUE
             rest == SumValues(rows \ {r})
         IN  IF r.value = None THEN rest
             ELSE IF rest = None THEN r.value
             ELSE Some(r.value[1] + rest[1])

\* COALESCE(x, dflt)
Coalesce(x, dflt) == IF x = None THEN dflt ELSE x[1]

\* Mutant of get_month_progress_for_habit: the boolean count leaves out
\* "AND done = TRUE"
month_progress_counting_all(habit_id, measure_type, d) ==
    LET range == MonthRange(d)
    IN  IF ~range.ok THEN range
        ELSE LET inRange == {r \in habit_logs :
                                /\ r.habit_id = habit_id
                                /\ Between(r.log_date, range.val.first, range.val.last)}
             IN  IF measure_type = "boolean"
                 THEN Return(Cardinality(inRange))
                 ELSE Return(Coalesce(SumValues(inRange), 0))

get_month_progress_for_habit(habit_id, measure_type, d) ==
    LET range == MonthRange(d)
    IN  IF ~range.ok THEN range
        ELSE LET inRange == {r \in habit_logs :
                                /\ r.habit_id = habit_id
                                /\ Between(r.log_date, range.val.first, range.val.last)}
             IN  IF measure_type = "boolean"
                 THEN Return(Cardinality({r \in inRange : r.done = Some(TRUE)}))
                 ELSE Return(Coalesce(SumValues(inRange), 0))

-----------------------------------------------------------------------------
(* Accounts: str.lower and str.strip, bcrypt, the users table, and         *)
(* st.session_state as a function from the keys it holds.                  *)

UpperCase == <<"A", "B", "C", "D", "E", "F", "G", "H", "I", "J", "K", "L", "M",
               "N", "O", "P", "Q", "R", "S", "T", "U", "V", "W", "X", "Y", "Z">>
LowerCase == <<"a", "b", "c", "d", "e", "f", "g", "h", "i", "j", "k", "l", "m",
               "n", "o", "p", "q", "r", "s", "t", "u", "v", "w", "x", "y", "z">>

LowerChar(c) ==
    IF \E i \in 1..Len(UpperCase) : UpperCase[i] = c
    THEN LowerCase[CHOOSE i \in 1..Len(UpperCase) : UpperCase[i] = c]
    ELSE c

\* str.lower()
Lower(str) == [i \in 1..Len(str) |-> LowerChar(str[i])]

Whitespace == {" ", "\t", "\n"}

RECURSIVE Strip(_)
\* str.strip()
Strip(str) ==
    IF str = <<>> THEN str
    ELSE IF Head(str) \in Whitespace THEN Strip(Tail(str))
    ELSE IF str[Len(str)] \in Whitespace THEN Strip(SubSeq(str, 1, Len(str) - 1))
    ELSE str

\* bcrypt.hashpw(pw, bcrypt.gensalt()): the salt and the digest of salt and pw
hash_password(pw, salt) == [salt |-> salt, digest |-> <<salt, pw>>]

\* Mutant of verify_password: every password is accepted
verify_accepting_any(pw, pw_hash) == TRUE

\* bcrypt.checkpw(pw, pw_hash)
verify_password(pw, pw_hash) == pw_hash.digest = <<pw_hash.salt, pw>>

\* SELECT ... FROM users WHERE email = lower(email); fetchone()
get_user_by_email(email) ==
    IF \E u \in users : u.email = Lower(email)
    THEN Some(CHOOSE u \in users : u.email = Lower(email))
    ELSE None

\* INSERT INTO users (email, name, password_hash, is_admin); email is UNIQUE.
\* The new rows and the outcome; the id sequence advances in every case.
create_user(email, name, password, is_admin, salt) ==
    IF \E u \in users : u.email = Lower(email)
    THEN [rows |-> users, out |-> Raise("UniqueViolation")]
    ELSE [rows |-> users \cup {[id |-> seq.users + 1, email |-> Lower(email),
                                name |-> name,
                                password_hash |-> hash_password(password, salt),
                                is_admin |-> is_admin]},
          out |-> Return(None)]

\* SELECT COUNT(*) FROM users; count == 0
ensure_first_admin == Cardinality(users) = 0

\* st.session_state[key] = value
Put(state, key, value) ==
    [k \in DOMAIN state \cup {key} |-> IF k = key THEN value ELSE state[k]]

\* st.session_state.pop(key, None)
Pop(state, key) == [k \in DOMAIN state \ {key} |-> state[k]]

\* A session_state that holds no key
NoKeys == [k \in {} |-> None]

\* The three assignments of a successful login
LoggedIn(state, user) ==
    Put(Put(Put(state, "user_id", user.id), "user_name", user.name),
        "is_admin", user.is_admin)

\* The account the single-user specifications run under
FirstUser ==
    [id |-> user_id, email |-> <<"a", "@", "x">>, name |-> "Ana",
     password_hash |-> hash_password("p", "s1"), is_admin |-> TRUE]

NoRun == [screen |-> "none"]

-----------------------------------------------------------------------------
(* Bounds and input sets.                                                  *)

\* Ids drawn from the sequences after the default categories: by the screens'
\* handlers (MaxInserts), and in all, direct calls of upsert_habit_log included
\* (MaxIds)
MaxInserts == 3
MaxIds == 4

\* Days the clock advances past StartDate
MaxDays == 1

StartDate == Date(2024, 2, 29)

IdsUsed ==
    seq.categories - Len(Defaults) + seq.goals + seq.tasks + seq.habits
      + seq.habit_logs

CanInsert == IdsUsed < MaxInserts

CanCall == IdsUsed < MaxIds

\* The seven checkboxes of the habit form: the default Mon..Fri, and Mon/Wed/Fri
WorkDays == <<TRUE, TRUE, TRUE, TRUE, TRUE, FALSE, FALSE>>
MonWedFri == <<TRUE, FALSE, TRUE, FALSE, TRUE, FALSE, FALSE>>

HabitForms ==
    {[measure_type |-> "boolean", schedule_type |-> "daily", selected |-> WorkDays,
      active |-> TRUE],
     [measure_type |-> "numeric", schedule_type |-> "monthly", selected |-> WorkDays,
      active |-> TRUE],
     [measure_type |-> "boolean", schedule_type |-> "weekdays", selected |-> MonWedFri,
      active |-> TRUE],
     [measure_type |-> "numeric", schedule_type |-> "weekdays", selected |-> WorkDays,
      active |-> FALSE]}

\* done and value arguments of upsert_habit_log calls
CallArgs ==
    {<<Some(TRUE), None>>, <<Some(FALSE), None>>, <<None, Some(3)>>,
     <<None, Some(4)>>}

LogDates == {Date(2024, 1, 31), Date(2024, 2, 1), Date(2024, 2, 29)}

QueryDates == {Date(2024, 1, 15), Date(2024, 2, 10)}

MeasureTypes == {"boolean", "numeric"}

-----------------------------------------------------------------------------
(* Handlers of the habits screen and calls of the log functions.           *)

Seeded == SeedCategories(categories, seq.categories)

\* habits_screen, form add_habit: INSERT INTO habits
AddHabit(form, category, goal_sel) ==
    /\ CanInsert
    /\ \E c \in Seeded.rows : c.name = category
    /\ IF goal_sel = None THEN TRUE ELSE goal_sel[1] \in Ids(goals)
    /\ habits' = habits \cup
          {[id |-> seq.habits + 1,
            user_id |-> user_id,
            category_id |-> Some(CatId(Seeded.rows, category)),
            goal_id |-> goal_sel,
            measure_type |-> form.measure_type,
            schedule_type |-> form.schedule_type,
            weekdays_mask |-> IF form.schedule_type = "weekdays"
                              THEN Some(FormMask(form.selected)) ELSE None,
            active |-> form.active]}
    /\ seq' = [seq EXCEPT !.habits = @ + 1, !.categories = Seeded.last]
    /\ categories' = Seeded.rows
    /\ call' = NoCall
    /\ UNCHANGED <<clock, goals, tasks, habit_logs, upserted, sess, applied, appVars>>

\* habits_screen, "Toggle Actiu/Pausat": UPDATE habits SET active = NOT active
ToggleHabit(sel) ==
    /\ sel \in Ids(habits)
    /\ habits' = {IF h.id = sel /\ h.user_id = user_id
                  THEN [h EXCEPT !.active = ~@] ELSE h : h \in habits}
    /\ seq' = [seq EXCEPT !.categories = Seeded.last]
    /\ categories' = Seeded.rows
    /\ call' = NoCall
    /\ UNCHANGED <<clock, goals, tasks, habit_logs, upserted, sess, applied, appVars>>

\* habits_screen, "Eliminar habit (i logs)": DELETE FROM habits; its logs cascade
DeleteHabit(sel) ==
    /\ sel \in Ids(habits)
    /\ LET gone == {h.id : h \in {x \in habits : x.id = sel /\ x.user_id = user_id}}
       IN  /\ habits' = {h \in habits : h.id \notin gone}
           /\ habit_logs' = CascadeLogs(habit_logs, gone)
    /\ seq' = [seq EXCEPT !.categories = Seeded.last]
    /\ categories' = Seeded.rows
    /\ call' = NoCall
    /\ UNCHANGED <<clock, goals, tasks, upserted, sess, applied, appVars>>

\* A call upsert_habit_log(h, d, done, value)
UpsertCall(h, d, done, value) ==
    /\ CanCall
    /\ LET res == upsert_habit_log(h, d, done, value)
       IN  /\ habit_logs' = res.rows
           /\ call' = [fn |-> "upsert_habit_log", habit_id |-> h, log_date |-> d,
                       done |-> done, value |-> value, out |-> res.out,
                       before |-> RowsFor(habit_logs, h, d)]
           /\ upserted' = IF res.out.ok THEN upserted \cup {<<h, d>>} ELSE upserted
    /\ seq' = [seq EXCEPT !.habit_logs = @ + 1]
    /\ UNCHANGED <<clock, categories, goals, tasks, habits, sess, applied, appVars>>

\* A call get_month_progress_for_habit(h, measure_type, d)
MonthProgressCall(h, measure_type, d) ==
    /\ call' = [fn |-> "get_month_progress_for_habit", habit_id |-> h,
                measure_type |-> measure_type, d |-> d,
                range |-> MonthRange(d),
                out |-> get_month_progress_for_habit(h, measure_type, d)]
    /\ UNCHANGED <<clock, dbVars, upserted, sess, applied, appVars>>

-----------------------------------------------------------------------------
(* SpecUpsert: habits are created and deleted, and the two log functions   *)
(* are called with any arguments.                                          *)

InitDb ==
    /\ categories = SeedCategories({}, 0).rows
    /\ goals = {}
    /\ tasks = {}
    /\ habits = {}
    /\ habit_logs = {}
    /\ users = {FirstUser}
    /\ mood_logs = {}
    /\ seq = [categories |-> SeedCategories({}, 0).last, goals |-> 0, tasks |-> 0,
              habits |-> 0, habit_logs |-> 0, users |-> 1]

\* Session A is logged in as the first user
InitIdle ==
    /\ call = NoCall
    /\ upserted = {}
    /\ sess = <<>>
    /\ applied = <<>>
    /\ session_state = [s \in {"A", "B"} |->
                          IF s = "A" THEN LoggedIn(NoKeys, FirstUser) ELSE NoKeys]
    /\ shown = NoRun
    /\ conns = <<>>

InitUpsert == InitDb /\ InitIdle /\ clock = StartDate

UpsertForms == {f \in HabitForms : f.schedule_type = "daily"}

NextUpsert ==
    \/ \E f \in UpsertForms : AddHabit(f, "Salud", None)
    \/ \E h \in Ids(habits) : DeleteHabit(h)
    \/ \E h \in 1..seq.habits, d \in LogDates, a \in CallArgs :
          UpsertCall(h, d, a[1], a[2])
    \/ \E h \in 1..seq.habits, m \in MeasureTypes, d \in QueryDates :
          MonthProgressCall(h, m, d)

SpecUpsert == InitUpsert /\ [][NextUpsert]_vars

-----------------------------------------------------------------------------
(* Spec: the screens of one logged-in user, one handler per step.          *)

FormCategories == {"Salud"}
NewCategories == {"Salud", "Ocio"}
NumberInputs == {-2, 3}
TaskStatuses == {"todo", "doing", "done"}

\* The slider of the mood form offers 1..10; 7 is its default
Moods == {7}

\* categories_screen, form add_cat: INSERT INTO categories ... DO NOTHING
AddCategory(name) ==
    /\ CanInsert
    /\ LET res == InsertCategory(Seeded.rows, Seeded.last, name)
       IN  /\ categories' = res.rows
           /\ seq' = [seq EXCEPT !.categories = res.last]
    /\ call' = NoCall
    /\ UNCHANGED <<clock, goals, tasks, habits, habit_logs, upserted, sess, applied, appVars>>

\* categories_screen, "Eliminar": DELETE FROM categories WHERE name = sel;
\* goals and habits of the category keep their row, category_id set to NULL
DeleteCategory(sel) ==
    /\ \E c \in Seeded.rows : c.name = sel
    /\ LET gone == {c.id : c \in {x \in Seeded.rows : x.name = sel}}
       IN  /\ categories' = {c \in Seeded.rows : c.id \notin gone}
           /\ goals' = SetNull(goals, "category_id", gone)
           /\ habits' = SetNull(habits, "category_id", gone)
    /\ seq' = [seq EXCEPT !.categories = Seeded.last]
    /\ call' = NoCall
    /\ UNCHANGED <<clock, tasks, habit_logs, upserted, sess, applied, appVars>>

\* goals_screen, form add_goal: INSERT INTO goals
AddGoal(category) ==
    /\ CanInsert
    /\ \E c \in Seeded.rows : c.name = category
    /\ goals' = goals \cup
          {[id |-> seq.goals + 1, user_id |-> user_id,
            category_id |-> Some(CatId(Seeded.rows, category))]}
    /\ seq' = [seq EXCEPT !.goals = @ + 1, !.categories = Seeded.last]
    /\ categories' = Seeded.rows
    /\ call' = NoCall
    /\ UNCHANGED <<clock, tasks, habits, habit_logs, upserted, sess, applied, appVars>>

\* goals_screen, "Eliminar meta (i tasques/habits vinculats)": DELETE FROM
\* goals; tasks.goal_id is ON DELETE CASCADE, habits.goal_id ON DELETE SET NULL
DeleteGoal(sel) ==
    /\ sel \in Ids(goals)
    /\ LET gone == {g.id : g \in {x \in goals : x.id = sel /\ x.user_id = user_id}}
       IN  /\ goals' = {g \in goals : g.id \notin gone}
           /\ tasks' = Cascade(tasks, "goal_id", gone)
           /\ habits' = SetNull(habits, "goal_id", gone)
    /\ seq' = [seq EXCEPT !.categories = Seeded.last]
    /\ categories' = Seeded.rows
    /\ call' = NoCall
    /\ UNCHANGED <<clock, habit_logs, upserted, sess, applied, appVars>>

\* tasks_screen, form add_task: INSERT INTO tasks (..., status 'todo', ...)
AddTask(goal_sel) ==
    /\ CanInsert
    /\ IF goal_sel = None THEN TRUE ELSE goal_sel[1] \in Ids(goals)
    /\ tasks' = tasks \cup
          {[id |-> seq.tasks + 1, user_id |-> user_id, goal_id |-> goal_sel,
            status |-> "todo", completed_at |-> None]}
    /\ seq' = [seq EXCEPT !.tasks = @ + 1, !.categories = Seeded.last]
    /\ categories' = Seeded.rows
    /\ call' = NoCall
    /\ UNCHANGED <<clock, goals, habits, habit_logs, upserted, sess, applied, appVars>>

\* get_tasks(user_id, only_open=True): the tasks the screen offers
OpenTasks == {t \in tasks : t.user_id = user_id /\ t.status # "done"}

\* Mutant of update_task_status: completed_at is written when the task
\* becomes done and left as it is otherwise
update_status_never_clearing(sel, new_status) ==
    {IF t.id = sel /\ t.user_id = user_id
     THEN [t EXCEPT !.status = new_status,
                    !.completed_at = IF new_status = "done" THEN Some(clock) ELSE @]
     ELSE t : t \in tasks}

\* UPDATE tasks SET status = new_status, completed_at = NOW() (for 'done') or
\* NULL (otherwise) WHERE id = sel AND user_id = user_id
update_task_status(sel, new_status) ==
    {IF t.id = sel /\ t.user_id = user_id
     THEN [t EXCEPT !.status = new_status,
                    !.completed_at = IF new_status = "done"
                                     THEN Some(clock) ELSE None]
     ELSE t : t \in tasks}

\* tasks_screen, "Guardar estat": UPDATE tasks SET status, completed_at
SaveTaskStatus(sel, new_status) ==
    /\ sel \in Ids(OpenTasks)
    /\ tasks' = update_task_status(sel, new_status)
    /\ seq' = [seq EXCEPT !.categories = Seeded.last]
    /\ categories' = Seeded.rows
    /\ call' = NoCall
    /\ UNCHANGED <<clock, goals, habits, habit_logs, upserted, sess, applied, appVars>>

\* tasks_screen, "Eliminar tasca": DELETE FROM tasks
DeleteTask(sel) ==
    /\ sel \in Ids(OpenTasks)
    /\ tasks' = {t \in tasks : ~(t.id = sel /\ t.user_id = user_id)}
    /\ seq' = [seq EXCEPT !.categories = Seeded.last]
    /\ categories' = Seeded.rows
    /\ call' = NoCall
    /\ UNCHANGED <<clock, goals, habits, habit_logs, upserted, sess, applied, appVars>>

\* today_screen: the active habits of the user that are due today
DueHabits ==
    {h \in habits :
        /\ h.user_id = user_id
        /\ h.active
        /\ habit_should_run_today(h.schedule_type, h.weekdays_mask) = Return(TRUE)}

\* today_screen, "Guardar" of a habit card: upsert_habit_log(hid, today(), ...)
SaveLog(hid, done, value) ==
    /\ CanInsert
    /\ LET res == upsert_habit_log(hid, today, done, value)
       IN  /\ habit_logs' = res.rows
           /\ call' = [fn |-> "upsert_habit_log", habit_id |-> hid,
                       log_date |-> today, done |-> done, value |-> value,
                       out |-> res.out,
                       before |-> RowsFor(habit_logs, hid, today)]
           /\ upserted' = IF res.out.ok THEN upserted \cup {<<hid, today>>}
                          ELSE upserted
    /\ seq' = [seq EXCEPT !.habit_logs = @ + 1, !.categories = Seeded.last]
    /\ categories' = Seeded.rows
    /\ UNCHANGED <<clock, goals, tasks, habits, sess, applied, appVars>>

\* The card of a boolean habit: upsert_habit_log(hid, today(), done=done, value=None)
SaveBoolean(hid, done) ==
    /\ \E h \in DueHabits : h.id = hid /\ h.measure_type = "boolean"
    /\ SaveLog(hid, Some(done), None)

\* The card of any other habit: upsert_habit_log(hid, today(), done=None, value=val)
SaveNumeric(hid, val) ==
    /\ \E h \in DueHabits : h.id = hid /\ h.measure_type # "boolean"
    /\ SaveLog(hid, None, Some(val))

\* today_screen, form mood_form: upsert_mood_log(user_id, today(), mood, text)
SaveMood(mood) ==
    /\ mood_logs' = upsert_mood_log(user_id, today, mood)
    /\ seq' = [seq EXCEPT !.categories = Seeded.last]
    /\ categories' = Seeded.rows
    /\ call' = NoCall
    /\ UNCHANGED <<clock, goals, tasks, habits, habit_logs, upserted, sess, applied,
                   users, session_state, shown, conns>>

\* Midnight: date.today() moves to the next day
Tick ==
    /\ DaysBetween(clock, StartDate) < MaxDays
    /\ clock' = DatePlusDays(clock, 1).val
    /\ UNCHANGED <<call, dbVars, upserted, sess, applied, appVars>>

Init == InitDb /\ InitIdle /\ clock = StartDate

Next ==
    \/ \E n \in NewCategories : AddCategory(n)
    \/ \E n \in NewCategories : DeleteCategory(n)
    \/ \E c \in FormCategories : AddGoal(c)
    \/ \E g \in Ids(goals) : DeleteGoal(g)
    \/ \E g \in {None} \cup {Some(i) : i \in Ids(goals)} : AddTask(g)
    \/ \E t \in Ids(tasks), st \in TaskStatuses : SaveTaskStatus(t, st)
    \/ \E t \in Ids(tasks) : DeleteTask(t)
    \/ \E f \in HabitForms, c \in FormCategories,
          g \in {None} \cup {Some(i) : i \in Ids(goals)} : AddHabit(f, c, g)
    \/ \E h \in Ids(habits) : ToggleHabit(h)
    \/ \E h \in Ids(habits) : DeleteHabit(h)
    \/ \E h \in Ids(habits), done \in BOOLEAN : SaveBoolean(h, done)
    \/ \E h \in Ids(habits), v \in NumberInputs : SaveNumeric(h, v)
    \/ \E m \in Moods : SaveMood(m)
    \/ Tick

Spec == Init /\ [][Next]_vars

-----------------------------------------------------------------------------
(* SpecRace: two sessions of the user run upsert_habit_log at once.  A     *)
(* call is get_conn, cur.execute (the statement, applied inside the        *)
(* connection's transaction), conn.commit, close.  A statement that meets  *)
(* an uncommitted write of the same (habit_id, log_date) waits for that    *)
(* transaction to end: the unique index of habit_logs arbitrates.          *)

Sessions == {"A", "B"}

RaceDates == {StartDate}

Idle == [pc |-> "idle"]

SameKey(x, y) == x.habit_id = y.habit_id /\ x.log_date = y.log_date

\* Mutant of Blocked: no unique index, so no statement waits for another
NeverBlocked(s) == FALSE

\* The statement of session s must wait: another session's transaction holds
\* an uncommitted write of the same (habit_id, log_date)
Blocked(s) ==
    \E t \in Sessions \ {s} : sess[t].pc = "executed" /\ SameKey(sess[t], sess[s])

InFlight == {s \in Sessions : sess[s].pc = "connected"}

\* upsert_habit_log is entered: conn = get_conn(); cur = conn.cursor()
RaceConnect(s, h, d, done, value) ==
    /\ sess[s].pc = "idle"
    /\ IdsUsed + Cardinality(InFlight) < MaxIds
    /\ sess' = [sess EXCEPT ![s] = [pc |-> "connected", habit_id |-> h,
                                    log_date |-> d, done |-> done, value |-> value]]
    /\ UNCHANGED <<clock, call, dbVars, upserted, applied, appVars>>

\* cur.execute(INSERT ... ON CONFLICT ... DO UPDATE): the statement is applied,
\* its write uncommitted
RaceExecute(s) ==
    /\ sess[s].pc = "connected"
    /\ ~Blocked(s)
    /\ LET c == sess[s]
           res == upsert_habit_log(c.habit_id, c.log_date, c.done, c.value)
       IN  /\ sess' = [sess EXCEPT ![s] =
                 [pc |-> IF res.out.ok THEN "executed" ELSE "failed",
                  habit_id |-> c.habit_id, log_date |-> c.log_date,
                  done |-> c.done, value |-> c.value,
                  old |-> RowsFor(habit_logs, c.habit_id, c.log_date),
                  new |-> RowsFor(res.rows, c.habit_id, c.log_date)]]
           /\ applied' = IF res.out.ok
                         THEN Append(applied,
                                [session |-> s, habit_id |-> c.habit_id,
                                 log_date |-> c.log_date, done |-> c.done,
                                 value |-> c.value,
                                 overlap |-> \E t \in Sessions \ {s} :
                                                /\ sess[t].pc # "idle"
                                                /\ SameKey(sess[t], c)])
                         ELSE applied
    /\ seq' = [seq EXCEPT !.habit_logs = @ + 1]
    /\ UNCHANGED <<clock, call, categories, goals, tasks, habits, habit_logs,
                   upserted, appVars>>

\* conn.commit(): the write becomes the stored row
RaceCommit(s) ==
    /\ sess[s].pc = "executed"
    /\ habit_logs' = (habit_logs \ sess[s].old) \cup sess[s].new
    /\ upserted' = upserted \cup {<<sess[s].habit_id, sess[s].log_date>>}
    /\ sess' = [sess EXCEPT ![s].pc = "committed"]
    /\ UNCHANGED <<clock, call, categories, goals, tasks, habits, seq, applied, appVars>>

\* cur.close(); conn.close(): upsert_habit_log returns
RaceClose(s) ==
    /\ sess[s].pc = "committed"
    /\ sess' = [sess EXCEPT ![s] = Idle]
    /\ UNCHANGED <<clock, call, dbVars, upserted, applied, appVars>>

\* One boolean daily habit of the user exists
InitRace ==
    /\ clock = StartDate
    /\ call = NoCall
    /\ upserted = {}
    /\ applied = <<>>
    /\ sess = [s \in Sessions |-> Idle]
    /\ categories = SeedCategories({}, 0).rows
    /\ goals = {}
    /\ tasks = {}
    /\ habits = {[id |-> 1, user_id |-> user_id, category_id |-> Some(1),
                  goal_id |-> None, measure_type |-> "boolean",
                  schedule_type |-> "daily", weekdays_mask |-> None,
                  active |-> TRUE]}
    /\ habit_logs = {}
    /\ users = {FirstUser}
    /\ mood_logs = {}
    /\ session_state = [s \in Sessions |-> LoggedIn(NoKeys, FirstUser)]
    /\ shown = NoRun
    /\ conns = <<>>
    /\ seq = [categories |-> SeedCategories({}, 0).last, goals |-> 0, tasks |-> 0,
              habits |-> 1, habit_logs |-> 0, users |-> 1]

NextRace ==
    \/ \E s \in Sessions, h \in Ids(habits), d \in RaceDates, a \in CallArgs :
          RaceConnect(s, h, d, a[1], a[2])
    \/ \E s \in Sessions : RaceExecute(s)
    \/ \E s \in Sessions : RaceCommit(s)
    \/ \E s \in Sessions : RaceClose(s)

SpecRace == InitRace /\ [][NextRace]_vars

-----------------------------------------------------------------------------
(* SpecFn: the scheduler and the month range as functions of their inputs. *)

\* Two weeks, Monday first: one holds 29 February, one the turn of the year
WeekA == <<Date(2024, 2, 26), Date(2024, 2, 27), Date(2024, 2, 28), Date(2024, 2, 29),
           Date(2024, 3, 1), Date(2024, 3, 2), Date(2024, 3, 3)>>
WeekB == <<Date(2024, 12, 30), Date(2024, 12, 31), Date(2025, 1, 1), Date(2025, 1, 2),
           Date(2025, 1, 3), Date(2025, 1, 4), Date(2025, 1, 5)>>

WeekDates == {WeekA[i] : i \in 1..7} \cup {WeekB[i] : i \in 1..7}

\* Monday = 0 .. Sunday = 6, read off the calendar of the two weeks
DayIndex(d) == CHOOSE i \in 0..6 : WeekA[i + 1] = d \/ WeekB[i + 1] = d

Bits(selected) ==
    [i \in 1..Len(selected) |-> IF selected[i] THEN <<"1">> ELSE <<"0">>]

\* Masks of exactly seven entries; in OddEntries only Friday's entry is "1"
OddEntries == << <<"t", "r", "u", "e">>, <<>>, <<"0", "1">>, <<" ", "1">>, <<"1">>,
                 <<"T">>, <<"1", " ">> >>
SevenEntryLists ==
    {Bits(MonWedFri), Bits(WorkDays),
     Bits(<<FALSE, FALSE, FALSE, FALSE, FALSE, TRUE, TRUE>>), OddEntries}

\* Masks of another number of entries: 3, 6, 8, and "1111111" (one entry)
OtherEntryLists ==
    {[i \in 1..3 |-> <<"1">>], [i \in 1..6 |-> <<"1">>], [i \in 1..8 |-> <<"1">>],
     << <<"1", "1", "1", "1", "1", "1", "1">> >>}

Masks ==
    {None, Some(<<>>)}
      \cup {Some(Join(e, ",")) : e \in SevenEntryLists \cup OtherEntryLists}

ScheduleTypes == {"daily", "weekdays", "monthly", "weekly", "Daily", ""}

RefYears == {1900, 2000, 2023, 2024, 9999}

\* The first, the tenth and the last day of every month of RefYears
RefDates ==
    {Date(t[1], t[2], 1) : t \in RefYears \X (1..12)}
      \cup {Date(t[1], t[2], 10) : t \in RefYears \X (1..12)}
      \cup {Date(t[1], t[2], LibDaysInMonth(t[1], t[2])) : t \in RefYears \X (1..12)}

\* A call habit_should_run_today(schedule_type, weekdays_mask)
ShouldRunCall(schedule_type, weekdays_mask) ==
    /\ call' = [fn |-> "habit_should_run_today", schedule_type |-> schedule_type,
                weekdays_mask |-> weekdays_mask,
                out |-> habit_should_run_today(schedule_type, weekdays_mask)]
    /\ UNCHANGED <<clock, dbVars, upserted, sess, applied, appVars>>

InitFn == InitDb /\ InitIdle /\ clock \in WeekDates

NextFn ==
    \/ \E st \in ScheduleTypes, m \in Masks : ShouldRunCall(st, m)
    \/ \E d \in RefDates : MonthProgressCall(1, "boolean", d)

SpecFn == InitFn /\ [][NextFn]_vars

-----------------------------------------------------------------------------
(* SpecTasks: two sessions of the user on the tasks screen.  The run of    *)
(* "Guardar estat" or "Eliminar tasca" first reads the open tasks          *)
(* (get_tasks, the selectbox offers their ids), then executes its UPDATE   *)
(* or DELETE on another connection; the other session runs between the     *)
(* two.                                                                    *)

TaskButtons == {"Guardar estat", "Eliminar tasca"}

\* The run of a pressed button reads the open tasks; sel is one of them
TaskSelect(s, sel, new_status, button) ==
    /\ sess[s].pc = "idle"
    /\ sel \in Ids(OpenTasks)
    /\ sess' = [sess EXCEPT ![s] = [pc |-> "selected", sel |-> sel,
                                    new_status |-> new_status, button |-> button]]
    /\ seq' = [seq EXCEPT !.categories = Seeded.last]
    /\ categories' = Seeded.rows
    /\ UNCHANGED <<clock, call, goals, tasks, habits, habit_logs, upserted, applied,
                   appVars>>

\* The statement of the pressed button, then st.rerun()
TaskWrite(s) ==
    /\ sess[s].pc = "selected"
    /\ tasks' = IF sess[s].button = "Guardar estat"
                THEN update_task_status(sess[s].sel, sess[s].new_status)
                ELSE {t \in tasks : ~(t.id = sess[s].sel /\ t.user_id = user_id)}
    /\ call' = [fn |-> "tasks_screen", button |-> sess[s].button,
                sel |-> sess[s].sel, new_status |-> sess[s].new_status,
                before |-> {t.status : t \in {x \in tasks : x.id = sess[s].sel}}]
    /\ sess' = [sess EXCEPT ![s] = Idle]
    /\ UNCHANGED <<clock, categories, goals, habits, habit_logs, seq, upserted,
                   applied, appVars>>

InitTasks ==
    /\ InitDb
    /\ clock = StartDate
    /\ call = NoCall
    /\ upserted = {}
    /\ applied = <<>>
    /\ sess = [s \in Sessions |-> Idle]
    /\ session_state = [s \in Sessions |-> LoggedIn(NoKeys, FirstUser)]
    /\ shown = NoRun
    /\ conns = <<>>

NextTasks ==
    \/ AddTask(None)
    \/ \E s \in Sessions, t \in Ids(tasks), st \in TaskStatuses, b \in TaskButtons :
          TaskSelect(s, t, st, b)
    \/ \E s \in Sessions : TaskWrite(s)

SpecTasks == InitTasks /\ [][NextTasks]_vars

-----------------------------------------------------------------------------
(* SpecAuth: script runs of two browser sessions on a store without users: *)
(* the first-admin form, login, logout, the sidebar and the router, the    *)
(* admin panel.  Every run starts with init_db(),                          *)
(* upsert_default_categories_if_empty() and ensure_first_admin(); a        *)
(* handler that ends in st.rerun() includes the run it starts.  The        *)
(* first-admin submission is two steps, ensure_first_admin() and           *)
(* create_user(): each is a statement on a connection of its own, and      *)
(* other sessions run between them.  The section names are the source's,   *)
(* without their accents.                                                  *)

\* Rows the users sequence hands out
MaxUsers == 2

Sections ==
    {"Avui", "Habits", "Metes", "Tasques", "Categories", "Diari", "Report",
     "Administracio"}

Names == {"Ana", ""}
EmailInputs == {<<"a", "@", "x">>, <<"A", "@", "x">>, <<" ", "b", "@", "x">>}
Passwords == {"p", "q"}
Salts == {"s1"}

\* "Fix section list for non-admin"
FixSection(section, is_admin) ==
    IF ~is_admin /\ section = "Administracio" THEN "Avui" ELSE section

\* The if/elif chain of the router: the screen function it calls
Router(section, is_admin) ==
    IF section = "Avui" THEN "today_screen"
    ELSE IF section = "Habits" THEN "habits_screen"
    ELSE IF section = "Metes" THEN "goals_screen"
    ELSE IF section = "Tasques" THEN "tasks_screen"
    ELSE IF section = "Categories" THEN "categories_screen"
    ELSE IF section = "Diari" THEN "diary_screen"
    ELSE IF section = "Report" THEN "report_screen"
    ELSE IF section = "Administracio" /\ is_admin THEN "admin_panel"
    ELSE "report_screen"

\* Mutant of Rendered: the section goes to the router as chosen, and the
\* router does not ask for is_admin
rendered_without_admin_check(section, is_admin) ==
    IF section = "Administracio" THEN "admin_panel" ELSE Router(section, TRUE)

\* The screen a main-app run renders for the chosen sidebar section
Rendered(section, is_admin) == Router(FixSection(section, is_admin), is_admin)

MainScreens ==
    {"today_screen", "habits_screen", "goals_screen", "tasks_screen",
     "categories_screen", "diary_screen", "report_screen", "admin_panel"}

\* A connection: the function that opened it, the statements executed on
\* it, and whether it was closed
Conn(fn, statements) == [fn |-> fn, statements |-> statements, closed |-> TRUE]

\* A connection whose only statement raised: conn.close() is skipped, and the
\* connection is closed only if the object is collected
FailedConn(fn, collected) == [fn |-> fn, statements |-> 1, closed |-> collected]

\* The connections every run opens before the forms: init_db (seven CREATE
\* TABLE), upsert_default_categories_if_empty (the count, and the inserts
\* when it is zero), ensure_first_admin
Prelude ==
    <<Conn("init_db", 7),
      Conn("upsert_default_categories_if_empty",
           IF categories = {} THEN 1 + Len(Defaults) ELSE 1),
      Conn("ensure_first_admin", 1)>>

\* The connections a screen opens to render, with no habit, goal or task stored
ScreenConns(screen) ==
    IF screen = "today_screen"
    THEN <<Conn("get_habits_for_user", 1), Conn("today_screen", 1),
           Conn("get_mood_log", 1)>>
    ELSE IF screen = "habits_screen"
    THEN <<Conn("get_categories", 1), Conn("get_goals", 1),
           Conn("get_habits_for_user", 1)>>
    ELSE IF screen = "goals_screen"
    THEN <<Conn("get_categories", 1), Conn("get_goals", 1)>>
    ELSE IF screen = "tasks_screen"
    THEN <<Conn("get_goals", 1), Conn("get_tasks", 1), Conn("tasks_screen", 1)>>
    ELSE IF screen = "categories_screen"
    THEN <<Conn("get_categories", 1)>>
    ELSE IF screen = "diary_screen"
    THEN <<Conn("get_mood_log", 1), Conn("diary_screen", 1)>>
    ELSE IF screen = "report_screen"
    THEN <<Conn("report_screen", 4)>>
    ELSE IF screen = "admin_panel"
    THEN <<Conn("admin_panel", 1)>>
    ELSE <<>>

\* What a run without a submitted form renders: the first-admin form while no
\* user exists, the login form while the session holds no user_id, else the
\* screen of the section
PlainScreen(state, rows, section) ==
    IF Cardinality(rows) = 0 THEN "first_admin"
    ELSE IF "user_id" \notin DOMAIN state THEN "login_form"
    ELSE Rendered(section, state["is_admin"])

\* The record of such a run: the section is None when the run stops before
\* the sidebar
PlainShown(b, state, rows, section) ==
    [session |-> b, screen |-> PlainScreen(state, rows, section),
     section |-> IF PlainScreen(state, rows, section) \in MainScreens
                 THEN Some(section) ELSE None]

PlainConns(state, rows, section) ==
    Prelude \o ScreenConns(PlainScreen(state, rows, section))

\* logout(): the three pops
logout(state) == Pop(Pop(Pop(state, "user_id"), "user_name"), "is_admin")

\* Sessions between ensure_first_admin() and create_user()
Creating == {s \in Sessions : sess[s].pc = "first_admin"}

CanCreateUser == seq.users + Cardinality(Creating) < MaxUsers

\* A run of session b with no form submitted and no button pressed
ViewRun(b, section) ==
    /\ sess[b].pc = "idle"
    /\ shown' = PlainShown(b, session_state[b], users, section)
    /\ conns' = PlainConns(session_state[b], users, section)
    /\ call' = NoCall
    /\ UNCHANGED <<clock, dbVars, upserted, sess, applied, users, mood_logs,
                   session_state>>

\* Form first_admin is submitted: the run reaches "if ensure_first_admin():"
\* with no user stored, and the fields pass the checks or an error is shown
FirstAdminCheck(b, name, email, pw, pw2) ==
    /\ sess[b].pc = "idle"
    /\ ensure_first_admin
    /\ CanCreateUser
    /\ sess' = IF name = "" \/ email = <<>> \/ pw = "" \/ pw # pw2
               THEN sess
               ELSE [sess EXCEPT ![b] = [pc |-> "first_admin", name |-> name,
                                         email |-> email, pw |-> pw,
                                         conns |-> Prelude]]
    /\ shown' = [session |-> b, screen |-> "first_admin", section |-> None]
    /\ conns' = Prelude
    /\ call' = NoCall
    /\ UNCHANGED <<clock, dbVars, upserted, applied, users, mood_logs,
                   session_state>>

\* create_user(email, name, pw, is_admin=True) of the first-admin form; on
\* success st.rerun(), an exception is shown as an error
FirstAdminCreate(b, salt, collected) ==
    /\ sess[b].pc = "first_admin"
    /\ LET c == sess[b]
           res == create_user(c.email, c.name, c.pw, TRUE, salt)
       IN  /\ users' = res.rows
           /\ applied' = IF res.out.ok
                         THEN Append(applied, [session |-> b, form |-> "first_admin",
                                               id |-> seq.users + 1,
                                               users_before |-> Cardinality(users)])
                         ELSE applied
           /\ shown' = IF res.out.ok
                        THEN PlainShown(b, session_state[b], res.rows, "Avui")
                        ELSE [session |-> b, screen |-> "first_admin",
                              section |-> None]
           /\ conns' = IF res.out.ok
                       THEN c.conns \o <<Conn("create_user", 1)>>
                              \o PlainConns(session_state[b], res.rows, "Avui")
                       ELSE c.conns \o <<FailedConn("create_user", collected)>>
    /\ seq' = [seq EXCEPT !.users = @ + 1]
    /\ sess' = [sess EXCEPT ![b] = Idle]
    /\ call' = NoCall
    /\ UNCHANGED <<clock, categories, goals, tasks, habits, habit_logs, upserted,
                   mood_logs, session_state>>

\* Form login_form is submitted; a successful login ends in st.rerun(), and
\* the new run shows the first section of the sidebar
Login(b, email_input, pw) ==
    /\ sess[b].pc = "idle"
    /\ ~ensure_first_admin
    /\ "user_id" \notin DOMAIN session_state[b]
    /\ LET email == Lower(Strip(email_input))
           user == get_user_by_email(email)
           ok == IF user = None THEN FALSE
                 ELSE verify_password(pw, user[1].password_hash)
           state == IF ok THEN LoggedIn(session_state[b], user[1])
                    ELSE session_state[b]
       IN  /\ session_state' = [session_state EXCEPT ![b] = state]
           /\ shown' = PlainShown(b, state, users, "Avui")
           /\ conns' = Prelude \o <<Conn("get_user_by_email", 1)>>
                         \o (IF ok THEN PlainConns(state, users, "Avui") ELSE <<>>)
    /\ call' = [fn |-> "login_form", session |-> b, email |-> email_input,
                pw |-> pw]
    /\ UNCHANGED <<clock, dbVars, upserted, sess, applied, users, mood_logs>>

\* The sidebar button Logout: logout(), whose st.rerun() starts the next run
Logout(b) ==
    /\ sess[b].pc = "idle"
    /\ PlainScreen(session_state[b], users, "Avui") \in MainScreens
    /\ session_state' = [session_state EXCEPT ![b] = logout(@)]
    /\ shown' = PlainShown(b, logout(session_state[b]), users, "Avui")
    /\ conns' = Prelude \o PlainConns(logout(session_state[b]), users, "Avui")
    /\ call' = [fn |-> "logout", session |-> b]
    /\ UNCHANGED <<clock, dbVars, upserted, sess, applied, users, mood_logs>>

\* admin_panel, form create_user_form is submitted: create_user, then the
\* list of users; an exception is shown as an error
AdminCreateUser(b, section, name, email_input, pw, isadm, salt, collected) ==
    /\ sess[b].pc = "idle"
    /\ PlainScreen(session_state[b], users, section) = "admin_panel"
    /\ CanCreateUser
    /\ LET email == Lower(Strip(email_input))
           filled == ~(name = "" \/ email = <<>> \/ pw = "")
           res == create_user(email, name, pw, isadm, salt)
       IN  /\ users' = IF filled THEN res.rows ELSE users
           /\ seq' = IF filled THEN [seq EXCEPT !.users = @ + 1] ELSE seq
           /\ applied' = IF filled /\ res.out.ok
                         THEN Append(applied, [session |-> b,
                                               form |-> "create_user_form",
                                               id |-> seq.users + 1,
                                               users_before |-> Cardinality(users)])
                         ELSE applied
           /\ conns' = Prelude
                         \o (IF ~filled THEN <<>>
                             ELSE IF res.out.ok THEN <<Conn("create_user", 1)>>
                             ELSE <<FailedConn("create_user", collected)>>)
                         \o ScreenConns("admin_panel")
    /\ shown' = [session |-> b, screen |-> "admin_panel", section |-> Some(section)]
    /\ call' = NoCall
    /\ UNCHANGED <<clock, categories, goals, tasks, habits, habit_logs, upserted,
                   sess, mood_logs, session_state>>

\* No user exists and no session is logged in
InitAuth ==
    /\ clock = StartDate
    /\ call = NoCall
    /\ upserted = {}
    /\ applied = <<>>
    /\ sess = [s \in Sessions |-> Idle]
    /\ categories = SeedCategories({}, 0).rows
    /\ goals = {}
    /\ tasks = {}
    /\ habits = {}
    /\ habit_logs = {}
    /\ users = {}
    /\ mood_logs = {}
    /\ session_state = [s \in Sessions |-> NoKeys]
    /\ shown = NoRun
    /\ conns = <<>>
    /\ seq = [categories |-> SeedCategories({}, 0).last, goals |-> 0, tasks |-> 0,
              habits |-> 0, habit_logs |-> 0, users |-> 0]

NextAuth ==
    \/ \E b \in Sessions, section \in Sections : ViewRun(b, section)
    \/ \E b \in Sessions, n \in Names, e \in EmailInputs, pw \in Passwords,
          pw2 \in Passwords : FirstAdminCheck(b, n, e, pw, pw2)
    \/ \E b \in Sessions, salt \in Salts, collected \in BOOLEAN :
          FirstAdminCreate(b, salt, collected)
    \/ \E b \in Sessions, e \in EmailInputs, pw \in Passwords : Login(b, e, pw)
    \/ \E b \in Sessions : Logout(b)
    \/ \E b \in Sessions, section \in Sections, n \in Names, e \in EmailInputs,
          pw \in Passwords, isadm \in BOOLEAN, salt \in Salts,
          collected \in BOOLEAN :
          AdminCreateUser(b, section, n, e, pw, isadm, salt, collected)

SpecAuth == InitAuth /\ [][NextAuth]_vars

-----------------------------------------------------------------------------
(* Claims on the log functions, under SpecUpsert.                          *)

IsUpsert == call.fn = "upsert_habit_log"
IsProgress == call.fn = "get_month_progress_for_habit"
IsShouldRun == call.fn = "habit_should_run_today"

\* C1: after any sequence of habit creations, habit deletions and
\* upsert_habit_log calls, habit_logs holds at most one row for each
\* (habit_id, log_date) pair.
C1_OneRowPerPair ==
    \A r1 \in habit_logs, r2 \in habit_logs :
        (r1.habit_id = r2.habit_id /\ r1.log_date = r2.log_date) => r1 = r2

\* C1 witness: a second upsert for a pair that had a row completed, and the
\* pair still has one row.
C1_SecondWriteWitness ==
    /\ IsUpsert
    /\ call.out.ok
    /\ call.before # {}
    /\ Cardinality(RowsFor(habit_logs, call.habit_id, call.log_date)) = 1

\* C2: after upsert_habit_log(h, d, done, value) completes, the row of (h, d)
\* exists and holds exactly the call's done and the call's value, whatever it
\* held before: an argument left out nulls the field.
C2_UpsertOverwritesBoth ==
    (IsUpsert /\ call.out.ok) =>
        /\ RowsFor(habit_logs, call.habit_id, call.log_date) # {}
        /\ \A r \in RowsFor(habit_logs, call.habit_id, call.log_date) :
              r.done = call.done /\ r.value = call.value

\* C2 witness: a call passing only done, for a pair whose row held a value,
\* has left the value null.
C2_DoneOnlyNullsValueWitness ==
    /\ IsUpsert
    /\ call.out.ok
    /\ call.done = Some(FALSE)
    /\ call.value = None
    /\ \E b \in call.before : b.value # None
    /\ \E r \in habit_logs :
          /\ r.habit_id = call.habit_id
          /\ r.log_date = call.log_date
          /\ r.done = Some(FALSE)
          /\ r.value = None

SameMonth(a, b) == a.year = b.year /\ a.month = b.month

\* The rows of habit h dated in the calendar month of d
RowsOfMonth(h, d) ==
    {r \in habit_logs : r.habit_id = h /\ SameMonth(r.log_date, d)}

RECURSIVE TotalValue(_)
\* The values of the rows added up, a row without a value counting 0
TotalValue(rows) ==
    IF rows = {} THEN 0
    ELSE LET r == CHOOSE x \in rows : TRUE
         IN  (IF r.value = None THEN 0 ELSE r.value[1]) + TotalValue(rows \ {r})

\* C9: get_month_progress_for_habit(h, "boolean", d) returns the number of
\* rows of habit h dated in d's month whose done is true.
C9_BooleanProgressCountsDone ==
    (IsProgress /\ call.measure_type = "boolean") =>
        call.out = Return(Cardinality(
            {r \in RowsOfMonth(call.habit_id, call.d) : r.done = Some(TRUE)}))

\* C9 witness: two done rows in February 2024 give 2, while the habit also
\* has a row that is not done or lies outside the month.
C9_TwoDoneWitness ==
    /\ IsProgress
    /\ call.measure_type = "boolean"
    /\ call.d = Date(2024, 2, 10)
    /\ call.out = Return(2)
    /\ \E r \in habit_logs :
          /\ r.habit_id = call.habit_id
          /\ r.done = Some(TRUE)
          /\ ~SameMonth(r.log_date, call.d)

\* C10: get_month_progress_for_habit(h, "numeric", d) returns the sum of value
\* over the rows of habit h dated in d's month, a null value counting 0 and no
\* row giving 0.
C10_NumericProgressSumsValues ==
    (IsProgress /\ call.measure_type = "numeric") =>
        call.out = Return(TotalValue(RowsOfMonth(call.habit_id, call.d)))

\* C10 witness: values 3 and 4 in February 2024 give 7, while the habit has a
\* valued row outside the month.
C10_SevenWitness ==
    /\ IsProgress
    /\ call.measure_type = "numeric"
    /\ call.d = Date(2024, 2, 10)
    /\ call.out = Return(7)
    /\ \E r \in habit_logs :
          /\ r.habit_id = call.habit_id
          /\ r.value # None
          /\ ~SameMonth(r.log_date, call.d)

-----------------------------------------------------------------------------
(* Claims on the scheduler and the month range, under SpecFn.              *)

MaskOfEntries(e) == Some(Join(e, ","))

\* "1,0,1,0,1,0,0"
MonWedFriMask ==
    Some(<<"1", ",", "0", ",", "1", ",", "0", ",", "1", ",", "0", ",", "0">>)

\* C5: for schedule_type weekdays and a mask of exactly seven entries,
\* habit_should_run_today is true iff the entry of today's weekday (Monday
\* first) is "1"; mask "1,0,1,0,1,0,0" is due on Monday, Wednesday and Friday
\* only.
C5_WeekdaysEntryDecides ==
    (IsShouldRun /\ call.schedule_type = "weekdays") =>
        /\ \A e \in SevenEntryLists :
              call.weekdays_mask = MaskOfEntries(e) =>
                  call.out = Return(e[DayIndex(clock) + 1] = <<"1">>)
        /\ call.weekdays_mask = MonWedFriMask =>
              call.out = Return(DayIndex(clock) \in {0, 2, 4})

\* C5 witness: mask "1,0,1,0,1,0,0" on Wednesday 28 February 2024 is due.
C5_WednesdayWitness ==
    /\ IsShouldRun
    /\ call.schedule_type = "weekdays"
    /\ call.weekdays_mask = MonWedFriMask
    /\ clock = Date(2024, 2, 28)
    /\ call.out = Return(TRUE)

\* C6: daily and monthly schedules are due on every date, whatever the mask.
C6_DailyMonthlyAlwaysDue ==
    (IsShouldRun /\ call.schedule_type \in {"daily", "monthly"}) =>
        call.out = Return(TRUE)

\* C6 witness: a monthly schedule with a three-entry mask is due on a Sunday.
C6_MonthlyBadMaskWitness ==
    /\ IsShouldRun
    /\ call.schedule_type = "monthly"
    /\ call.weekdays_mask = MaskOfEntries([i \in 1..3 |-> <<"1">>])
    /\ clock = Date(2025, 1, 5)
    /\ call.out = Return(TRUE)

\* C7: a weekdays schedule whose mask is None, empty or not of seven entries,
\* and every schedule_type other than daily, weekdays and monthly, is not due:
\* the call returns false and raises nothing.
C7_MalformedIsNotDue ==
    IsShouldRun =>
        /\ (/\ call.schedule_type = "weekdays"
            /\ \/ call.weekdays_mask \in {None, Some(<<>>)}
               \/ \E e \in OtherEntryLists : call.weekdays_mask = MaskOfEntries(e))
              => call.out = Return(FALSE)
        /\ call.schedule_type \notin {"daily", "weekdays", "monthly"}
              => call.out = Return(FALSE)

\* C7 witness: a weekdays schedule with a three-entry mask, on a Sunday (index
\* 6, past the mask's end), returned false.
C7_ShortMaskWitness ==
    /\ IsShouldRun
    /\ call.schedule_type = "weekdays"
    /\ call.weekdays_mask = MaskOfEntries([i \in 1..3 |-> <<"1">>])
    /\ clock = Date(2024, 3, 3)
    /\ call.out = Return(FALSE)

\* The length of month m of year y in the Gregorian calendar
GregorianMonthLength(y, m) ==
    IF m \in {4, 6, 9, 11} THEN 30
    ELSE IF m # 2 THEN 31
    ELSE IF y % 400 = 0 \/ (y % 4 = 0 /\ y % 100 # 0) THEN 29 ELSE 28

\* d's month, from its day 1 to its last calendar day, holding d
CoversMonthOf(range, d) ==
    /\ range.ok
    /\ range.val.first = Date(d.year, d.month, 1)
    /\ range.val.last = Date(d.year, d.month, GregorianMonthLength(d.year, d.month))
    /\ range.val.first.day <= d.day
    /\ d.day <= range.val.last.day

\* C8: for every reference date d, get_month_progress_for_habit aggregates
\* over d's month, from its day 1 to its last calendar day (31 December of the
\* same year, 29 or 28 February), and first <= d <= last.
C8_RangeIsTheMonth ==
    IsProgress => CoversMonthOf(call.range, call.d) /\ call.out.ok

\* C8, for the dates before December 9999: the same statement.
C8_RangeIsTheMonthBeforeLastDecember ==
    (IsProgress /\ ~(call.d.year = MAXYEAR /\ call.d.month = 12)) =>
        CoversMonthOf(call.range, call.d) /\ call.out.ok

\* C8 witness: the range of 10 December 2024 ends on 31 December 2024.
C8_DecemberWitness ==
    /\ IsProgress
    /\ call.d = Date(2024, 12, 10)
    /\ call.range = Return([first |-> Date(2024, 12, 1), last |-> Date(2024, 12, 31)])

-----------------------------------------------------------------------------
(* Claims on concurrent upserts, under SpecRace.                           *)

AppliedTo(h, d) ==
    {i \in 1..Len(applied) : applied[i].habit_id = h /\ applied[i].log_date = d}

\* The statement applied last to (h, d)
LastApplied(h, d) ==
    applied[CHOOSE i \in AppliedTo(h, d) : \A j \in AppliedTo(h, d) : j <= i]

Uncommitted(h, d) ==
    \E s \in Sessions :
        sess[s].pc = "executed" /\ sess[s].habit_id = h /\ sess[s].log_date = d

\* C3: when sessions upsert the same (habit_id, log_date) concurrently, then in
\* every interleaving, once the writes are committed, the store holds exactly
\* one row for the pair, with the done and value of the statement applied
\* last.
C3_LastWriterWins ==
    \A h \in Ids(habits), d \in RaceDates :
        (AppliedTo(h, d) # {} /\ ~Uncommitted(h, d)) =>
            /\ Cardinality(RowsFor(habit_logs, h, d)) = 1
            /\ \A r \in RowsFor(habit_logs, h, d) :
                  /\ r.done = LastApplied(h, d).done
                  /\ r.value = LastApplied(h, d).value

\* C3 witness: two sessions were inside upsert_habit_log for the same pair at
\* once, with different arguments, both have returned, and the pair's one row
\* is the later statement's.
C3_RaceWitness ==
    /\ \A s \in Sessions : sess[s].pc = "idle"
    /\ Len(applied) = 2
    /\ applied[1].session # applied[2].session
    /\ SameKey(applied[1], applied[2])
    /\ applied[1].overlap
    /\ applied[1].done = Some(TRUE)
    /\ applied[2].value = Some(3)
    /\ \E r \in habit_logs : r.done = None /\ r.value = Some(3)
    /\ Cardinality(habit_logs) = 1

-----------------------------------------------------------------------------
(* Claims on the screens, under Spec.                                      *)

\* C4: a log row for (h, d) exists iff habit h still exists and an upsert for
\* (h, d) happened since h was created (ids are never handed out twice):
\* deleting a habit removes all of its log rows, no other handler removes one.
C4_LogsLiveWithTheirHabit ==
    {<<r.habit_id, r.log_date>> : r \in habit_logs}
        = {p \in upserted : p[1] \in Ids(habits)}

\* C4 witness: a habit logged on two days was deleted, and no row is left.
C4_DeletedHabitWitness ==
    \E h \in 1..seq.habits :
        /\ h \notin Ids(habits)
        /\ Cardinality({p \in upserted : p[1] = h}) = 2
        /\ habit_logs = {}

\* The monthly progress the today screen shows for habit h on today()
ProgressToday(h, measure_type) == get_month_progress_for_habit(h, measure_type, today)

\* C11: in every store state reachable through the boolean save and the
\* numeric save of the today screen, the monthly progress returned by
\* get_month_progress_for_habit is a non-negative number, for both measure
\* types.
C11_ProgressNonNegative ==
    \A h \in Ids(habits), m \in MeasureTypes :
        ProgressToday(h, m).ok => ProgressToday(h, m).val >= 0

\* C11, the boolean half alone: the count of done rows is never negative.
C11_BooleanProgressNonNegative ==
    \A h \in Ids(habits) :
        ProgressToday(h, "boolean").ok => ProgressToday(h, "boolean").val >= 0

\* C11 witness: the numeric save stored the negative number the input accepts,
\* and the numeric progress of that habit is below zero.
C11_NegativeSaveWitness ==
    /\ IsUpsert
    /\ call.out.ok
    /\ call.value = Some(-2)
    /\ ProgressToday(call.habit_id, "numeric") = Return(-2)

\* A step in which an upsert_habit_log statement was executed: only that
\* statement draws from the id sequence of habit_logs
IsUpsertStep == seq'.habit_logs # seq.habit_logs

OtherLogs(rows, h, d) == {r \in rows : ~(r.habit_id = h /\ r.log_date = d)}

-----------------------------------------------------------------------------
(* Claims on the script runs, under SpecAuth.                              *)

\* C13: every database access opens a fresh connection, executes exactly one
\* statement on it and closes it: no connection carries more than one
\* statement, and every connection opened is closed before the run that
\* opened it ends, also when the statement fails.
C13_OneStatementPerConnection ==
    \A i \in 1..Len(conns) : conns[i].statements = 1 /\ conns[i].closed

\* C13, what does hold: a connection is left open only by a statement that
\* raised, and only init_db, upsert_default_categories_if_empty and
\* report_screen put more than one statement on a connection.
C13_ClosedUnlessFailed ==
    \A i \in 1..Len(conns) :
        /\ ~conns[i].closed => conns[i].fn = "create_user"
        /\ conns[i].statements # 1 =>
              conns[i].fn \in {"init_db", "upsert_default_categories_if_empty",
                               "report_screen"}

\* C13 witness: a run rendered the report on one connection that carried four
\* statements.
C13_ReportWitness ==
    /\ shown.screen = "report_screen"
    /\ \E i \in 1..Len(conns) :
          conns[i].fn = "report_screen" /\ conns[i].statements = 4

\* C13 witness of the failing statement: create_user raised on a duplicate
\* email and its connection was never closed.
C13_LeakWitness ==
    \E i \in 1..Len(conns) : conns[i].fn = "create_user" /\ ~conns[i].closed

\* C15: the admin panel is rendered only in a run whose session has is_admin
\* true: for a non-admin session no choice of sidebar section reaches
\* admin_panel.
C15_AdminPanelOnlyForAdmins ==
    shown.screen = "admin_panel" =>
        /\ "is_admin" \in DOMAIN session_state[shown.session]
        /\ session_state[shown.session]["is_admin"] = TRUE

\* C15 witness: a logged-in session that is not admin chose the section
\* Administracio and the run rendered the today screen.
C15_NonAdminWitness ==
    /\ shown.screen = "today_screen"
    /\ shown.section = Some("Administracio")
    /\ session_state[shown.session]["is_admin"] = FALSE

FirstAdminCreations == {i \in 1..Len(applied) : applied[i].form = "first_admin"}

\* C16: the first-admin form creates an account only when no user exists: in
\* every interleaving of sessions that start on an empty users table at most
\* one user is created through the form, and none once the table is
\* non-empty.
C16_OnlyOneFirstAdmin ==
    /\ Cardinality(FirstAdminCreations) <= 1
    /\ \A i \in FirstAdminCreations : applied[i].users_before = 0

\* C16 witness: two sessions submitted the form while the table was empty, and
\* both accounts are stored as admins.
C16_TwoAdminsWitness ==
    /\ Cardinality(FirstAdminCreations) = 2
    /\ applied[1].session # applied[2].session
    /\ Cardinality({u \in users : u.is_admin}) = 2
    /\ \A b \in Sessions : session_state[b] = NoKeys

SessionKeys == {"user_id", "user_name", "is_admin"}

\* C17, the gate: a main-app screen is rendered only in a run whose session
\* holds user_id, and the three keys are held together or not at all.
C17_Gate ==
    /\ shown.screen \in MainScreens =>
          "user_id" \in DOMAIN session_state[shown.session]
    /\ \A b \in Sessions : DOMAIN session_state[b] \in {{}, SessionKeys}

\* C17, the steps: a session gains keys only in a login whose password is the
\* one the looked-up user's stored hash was made of, and then holds that
\* user's id, name and is_admin; logout removes the three keys and its next
\* run shows the login form.
C17_Steps ==
    \A b \in Sessions :
        /\ (session_state'[b] # session_state[b] /\ session_state'[b] # NoKeys) =>
              /\ call'.fn = "login_form"
              /\ call'.session = b
              /\ \E u \in users :
                    /\ u.email = Lower(Strip(call'.email))
                    /\ u.password_hash = hash_password(call'.pw, u.password_hash.salt)
                    /\ session_state'[b] = LoggedIn(NoKeys, u)
        /\ (call'.fn = "logout" /\ call'.session = b) =>
              /\ session_state'[b] = NoKeys
              /\ shown' = [session |-> b, screen |-> "login_form", section |-> None]

\* C17: a main-app screen is rendered only in a run whose session holds
\* user_id; user_id, user_name and is_admin enter the session only together
\* and only after verify_password succeeded for the stored hash of the
\* looked-up user; logout removes all three, and the next run shows the login
\* form.
C17_SessionGate == C17_Gate /\ [][C17_Steps]_vars /\ []C17_Gate

\* C17 witness: a session logged in with the stored password, was shown the
\* today screen, logged out, and its last run showed the login form.
C17_LogoutWitness ==
    /\ call = [fn |-> "logout", session |-> "B"]
    /\ shown = [session |-> "B", screen |-> "login_form", section |-> None]
    /\ session_state["B"] = NoKeys
    /\ session_state["A"] # NoKeys
    /\ Cardinality(users) = 2

-----------------------------------------------------------------------------
(* Claims on goals and tasks.                                              *)

\* C14: deleting a goal through the goals screen also removes every task and
\* every habit linked to that goal: afterwards no task and no habit that
\* referenced the deleted goal exists.
C14_DeleteGoalRemovesLinked ==
    [][\A g \in Ids(goals) \ Ids(goals') :
          /\ \A t \in tasks : t.goal_id = Some(g) => t.id \notin Ids(tasks')
          /\ \A h \in habits : h.goal_id = Some(g) => h.id \notin Ids(habits')]_vars

\* C14, what the schema does: the tasks of a deleted goal go with it, its
\* habits stay, with goal_id NULL, and so do their logs.
C14_TasksGoHabitsStay ==
    [][\A g \in Ids(goals) \ Ids(goals') :
          /\ \A t \in tasks : t.goal_id = Some(g) => t.id \notin Ids(tasks')
          /\ \A h \in habits : h.goal_id = Some(g) =>
                [h EXCEPT !.goal_id = None] \in habits'
          /\ habit_logs' = habit_logs]_vars

CompletedIffDone(t) == (t.completed_at # None) <=> (t.status = "done")

\* C18, the steps: a created task is todo with completed_at null, a task that
\* becomes done gets completed_at, a task that leaves done loses it.
C18_Steps ==
    /\ \A t \in tasks' :
          t.id \notin Ids(tasks) => t.status = "todo" /\ t.completed_at = None
    /\ \A t \in tasks, u \in tasks' :
          (t.id = u.id /\ t.status # u.status) =>
              /\ u.status = "done" => u.completed_at # None
              /\ t.status = "done" => u.completed_at = None

\* C18: in every state reachable by task creation, status updates and
\* deletion, each task has completed_at set iff its status is done: creation
\* yields todo with completed_at null, moving to done sets completed_at,
\* moving from done back to todo or doing clears it.
C18_CompletedAtIffDone ==
    /\ [](\A t \in tasks : CompletedIffDone(t))
    /\ [][C18_Steps]_vars

\* C18 witness: a task that was done when the statement ran was moved back to
\* todo, and its completed_at is null; another task is done with its
\* completed_at set.
C18_ReopenedWitness ==
    /\ call.fn = "tasks_screen"
    /\ call.button = "Guardar estat"
    /\ call.before = {"done"}
    /\ call.new_status = "todo"
    /\ \E t \in tasks :
          t.id = call.sel /\ t.status = "todo" /\ t.completed_at = None
    /\ \E t \in tasks : t.status = "done" /\ t.completed_at # None

====
